---------------------------- MODULE Spec2Model ----------------------------
(***************************************************************************)
(* Request authentication of alana-backend (src/app/auth.py): the OIDC     *)
(* key-set cache, the OIDC token validator, the user provisioner and the   *)
(* credential verifier get_current_user.                                   *)
(*                                                                         *)
(* Coroutines run on one event loop, so a step of the model is the code    *)
(* between two awaits that suspend: the two HTTP requests of               *)
(* get_oidc_jwks (auth.py:58 and auth.py:65).  Everything else in a        *)
(* request runs without suspension and is part of the step that reaches    *)
(* it.                                                                     *)
(***************************************************************************)
EXTENDS Integers, Sequences, FiniteSets, TLC

VARIABLES
    settings,         \* app.config.Settings, fixed for the process lifetime
    now,              \* datetime.utcnow(), in seconds
    jwks_cache,       \* auth.py:20  _jwks_cache
    jwks_cache_time,  \* auth.py:21  _jwks_cache_time
    users,            \* rows of the users table
    pc,               \* per request: where its coroutine is suspended
    entry,            \* per request: the function that was called
    token,            \* per request: the bearer string it carries
    reqs,             \* per request: HTTP requests its call has issued
    jwks_uri,         \* per request: local jwks_uri of get_oidc_jwks
    res,              \* per request: what the finished call returned/raised
    session,          \* per request: the row its db session loaded, its commits
    fetches,          \* key-set requests in flight, in the order they were issued
    projects,         \* rows of the projects table
    tasks,            \* rows of the tasks table
    states,           \* rows of the states table
    cycles,           \* rows of the cycles table
    api               \* the last request a router endpoint handled

(* The tables and the record of the router endpoints. *)
apiVars == <<projects, tasks, states, cycles, api>>

vars == <<settings, now, jwks_cache, jwks_cache_time, users,
          pc, entry, token, reqs, jwks_uri, res, session, fetches, apiVars>>

-----------------------------------------------------------------------------
(* Bounds of the model. *)

NumCallers == 2       \* concurrent calls of get_oidc_jwks in SpecCache
MaxDays    == 1       \* the clock covers 0..MaxDays whole days ...
MaxTicks   == 2       \* ... plus 0..MaxTicks ticks of TickLen seconds
TickLen    == 3000    \* below the freshness window; two ticks are beyond it
MaxTasks   == 3       \* create_task calls per project (Project.task_count)

(* Program constants. *)

CacheTTL   == 3600    \* auth.py:48  "< 3600"
NoTime     == -1      \* auth.py:21  _jwks_cache_time = None
AccessTokenExpireMinutes == 30    \* config.py:23

Procs == 1..NumCallers

NowValues == { d * 86400 + k * TickLen : d \in 0..MaxDays, k \in 0..MaxTicks }

Absent == "<absent>"          \* a missing dict key / Python None
EmptyDict == [keys |-> <<>>, empty |-> TRUE]     \* the JSON object {} (falsy)

-----------------------------------------------------------------------------
(* Key sets the provider's jwks endpoint can answer with.  A key entry is  *)
(* a JSON object; a field it lacks is Absent.                              *)

JwkEntry(kid, n) == [kty |-> "RSA", kid |-> kid, use |-> Absent, n |-> n, e |-> "AQAB"]

JwksDoc(keys) == [keys |-> keys, empty |-> FALSE]

JW_A   == JwksDoc(<<JwkEntry("k1", "m1"), JwkEntry("k2", "m2")>>)
JW_B   == JwksDoc(<<JwkEntry("k1", "m2")>>)                \* k1 rotated
JW_Bad == JwksDoc(<<JwkEntry(Absent, "m1"), JwkEntry("k1", Absent)>>)

JwksBodies == {EmptyDict, JW_A, JW_B, JW_Bad}

-----------------------------------------------------------------------------
(* timedelta.seconds: the seconds component of a normalised timedelta,     *)
(* 0 <= seconds < 86400, the days being held apart (auth.py:48).           *)
TimedeltaSeconds(d) == d % 86400

(* CacheValid with a window of one minute: the unit of the comparison      *)
(* mistaken.                                                               *)
CacheValidMutWindow(cache, ctime, t) ==
    /\ cache.empty = FALSE
    /\ ctime # NoTime
    /\ TimedeltaSeconds(t - ctime) < 60

(* auth.py:48: the cached record is served iff this holds. *)
CacheValid(cache, ctime, t) ==
    /\ cache.empty = FALSE
    /\ ctime # NoTime
    /\ TimedeltaSeconds(t - ctime) < CacheTTL

-----------------------------------------------------------------------------
(* Settings (src/app/config.py).  An unset string setting is "".           *)

Issuer    == "https://idp.example"
ClientId  == "alana-web"
SecretKey == "server-secret"

SettingsSpace ==
    [ oidc_issuer            : {"", Issuer},
      oidc_client_id         : {"", ClientId},
      require_email_verified : BOOLEAN,
      require_mfa            : BOOLEAN ]

-----------------------------------------------------------------------------
(* Bearer strings.  A well-formed JWT is its header (alg, kid), the key    *)
(* that signed it, whether its payload was altered after signing, and its  *)
(* payload claims; a claim it lacks is Absent.  The JSON booleans of       *)
(* email_verified are "true" and "false".                                  *)

Jwt(alg, kid, key, tampered, cl) ==
    [ form |-> "jwt", alg |-> alg, kid |-> kid, key |-> key,
      tampered |-> tampered, claims |-> cl ]

NoClaims ==
    [ iss |-> Absent, aud |-> Absent, exp |-> 0, sub |-> Absent,
      email |-> Absent, email_verified |-> Absent,
      given_name |-> Absent, family_name |-> Absent, name |-> Absent,
      amr |-> <<>>, acr |-> Absent ]

NoToken   == [Jwt(Absent, Absent, Absent, FALSE, NoClaims) EXCEPT !.form = "none"]
Malformed == [Jwt(Absent, Absent, Absent, FALSE, NoClaims) EXCEPT !.form = "malformed"]

(* auth.py:32-40.  expires_delta in seconds, 0 for None (both falsy);      *)
(* at is datetime.utcnow() when the token is minted.                       *)
create_access_token(data, expires_delta, at) ==
    LET expire == IF expires_delta # 0
                  THEN at + expires_delta
                  ELSE at + AccessTokenExpireMinutes * 60
    IN  Jwt("HS256", Absent, SecretKey, FALSE,
            [NoClaims EXCEPT !.sub = data.sub, !.exp = expire])

-----------------------------------------------------------------------------
(* JwtDecode without the expiry check (options verify_exp off). *)
JwtDecodeMutNoExp(tok, key, algorithms, audience, issuer, verify_aud, t) ==
    IF tok.form # "jwt" THEN "malformed"
    ELSE IF tok.alg \notin algorithms THEN "alg"
    ELSE IF tok.key # key \/ tok.tampered THEN "signature"
    ELSE IF issuer # "" /\ tok.claims.iss # issuer THEN "issuer"
    ELSE IF verify_aud /\ tok.claims.aud # audience THEN "audience"
    ELSE "ok"

(* JwtDecode without the signature check (claims read unverified). *)
JwtDecodeMutNoSig(tok, key, algorithms, audience, issuer, verify_aud, t) ==
    IF tok.form # "jwt" THEN "malformed"
    ELSE IF tok.alg \notin algorithms THEN "alg"
    ELSE IF tok.claims.exp < t THEN "expired"
    ELSE IF issuer # "" /\ tok.claims.iss # issuer THEN "issuer"
    ELSE IF verify_aud /\ tok.claims.aud # audience THEN "audience"
    ELSE "ok"

(* jose.jwt.decode as called at auth.py:106-113 and auth.py:221: the       *)
(* algorithm of the header must be allowed, the signature must verify      *)
(* under the key, the token must not be expired, and issuer and audience   *)
(* must match when they are checked.  "ok" or the reason of the JWTError.  *)
(* issuer = "" stands for no issuer check.  The tokens of the model all    *)
(* carry exp, and the provider's tokens carry iss and aud.                 *)
JwtDecode(tok, key, algorithms, audience, issuer, verify_aud, t) ==
    IF tok.form # "jwt" THEN "malformed"
    ELSE IF tok.alg \notin algorithms THEN "alg"
    ELSE IF tok.key # key \/ tok.tampered THEN "signature"
    ELSE IF tok.claims.exp < t THEN "expired"
    ELSE IF issuer # "" /\ tok.claims.iss # issuer THEN "issuer"
    ELSE IF verify_aud /\ tok.claims.aud # audience THEN "audience"
    ELSE "ok"

(* auth.py:89-100: the index of the first key whose kid equals the         *)
(* header's kid (None = None when both lack it), 0 when there is none.     *)
MatchingKey(keys, kid) ==
    LET hits == { i \in 1..Len(keys) : keys[i].kid = kid }
    IN  IF hits = {} THEN 0 ELSE CHOOSE i \in hits : \A j \in hits : i <= j

(* auth.py:93-99: key["kty"], key["kid"], key["n"], key["e"] raise         *)
(* KeyError on an entry that lacks them; key.get("use", "sig") does not.   *)
RsaKeyRaises(key) ==
    key.kty = Absent \/ key.kid = Absent \/ key.n = Absent \/ key.e = Absent

(* auth.py:83-118: validate_oidc_token once get_oidc_jwks has returned     *)
(* jwks.  tag "claims": the payload is returned; "None": None is returned  *)
(* (why says at which line); "raise": an exception that is no JWTError     *)
(* leaves the function.                                                    *)
ValidateResult(tag, why) == [tag |-> tag, why |-> why]

validate_with_jwks(cfg, tok, jwks, t) ==
    IF jwks.empty THEN ValidateResult("None", "no_jwks")                \* 83-84
    ELSE IF tok.form # "jwt" THEN ValidateResult("None", "malformed")   \* 87, 116
    ELSE LET i == MatchingKey(jwks.keys, tok.kid) IN
         IF i = 0 THEN ValidateResult("None", "no_key")                 \* 102-103
         ELSE IF RsaKeyRaises(jwks.keys[i])
              THEN ValidateResult("raise", "KeyError")                  \* 93-99
         ELSE LET d == JwtDecode(tok, jwks.keys[i].n, {"RS256"},
                                 cfg.oidc_client_id, cfg.oidc_issuer,
                                 cfg.oidc_client_id # "", t)
              IN  IF d = "ok" THEN ValidateResult("claims", "ok")       \* 115
                  ELSE ValidateResult("None", d)                        \* 116-118

-----------------------------------------------------------------------------
(* The users table (alembic 001 and 002): id is the primary key, email     *)
(* and sso_subject_id carry unique indexes (NULLs, here Absent, excepted). *)

User(id, email, full_name, hashed_password, is_active, is_verified, sso) ==
    [ id |-> id, email |-> email, full_name |-> full_name,
      hashed_password |-> hashed_password, is_active |-> is_active,
      is_verified |-> is_verified, sso_subject_id |-> sso ]

UserIds == {"u1", "u2", "u3", "u4"}

(* uuid.uuid4() at auth.py:170: an id no row has. *)
FreshId(us) == CHOOSE i \in UserIds : \A u \in us : u.id # i

(* UniqueOk without the unique index on email. *)
UniqueOkMutNoEmail(us) ==
    \A u, v \in us :
        u # v => /\ u.id # v.id
                 /\ (u.sso_subject_id = Absent \/ u.sso_subject_id # v.sso_subject_id)

UniqueOk(us) ==
    \A u, v \in us :
        u # v => /\ u.id # v.id
                 /\ u.email # v.email
                 /\ (u.sso_subject_id = Absent \/ u.sso_subject_id # v.sso_subject_id)

(* Python str helpers on the strings of the model. *)
OrEmpty(v) == IF v = Absent THEN "" ELSE v          \* claims.get(k, "")
FalsyMutNoneOnly(v) == v = Absent                   \* "is None" in place of "not v"
Falsy(v) == v = Absent \/ v = ""                    \* not v
LocalPart(email) ==                                  \* email.split("@")[0]
    CASE email = "a@x.com" -> "a"
      [] email = "b@x.com" -> "b"
      [] OTHER -> email
JoinStrip(g, f) ==                                   \* f"{g} {f}".strip()
    IF g = "" THEN f ELSE IF f = "" THEN g ELSE g \o " " \o f
AcrLowerHasMfa(acr) == acr \in {"mfa", "urn:MFA:otp"} \* "mfa" in acr.lower()

MfaMethods == {"mfa", "otp", "totp", "webauthn", "hwk"}     \* auth.py:155

(* auth.py:131-135 *)
FullName(cl) ==
    LET given  == OrEmpty(cl.given_name)
        family == OrEmpty(cl.family_name)
        name   == OrEmpty(cl.name)
    IN  IF given # "" \/ family # "" THEN JoinStrip(given, family)
        ELSE IF ~Falsy(cl.email)
             THEN (IF name # "" THEN name ELSE LocalPart(cl.email))
             ELSE "User"

(* HasMfa matching acr without lower(). *)
HasMfaMutCaseSensitive(cl) ==
    \/ \E i \in 1..Len(cl.amr) : cl.amr[i] \in MfaMethods
    \/ OrEmpty(cl.acr) = "mfa"

(* auth.py:151-156 *)
HasMfa(cl) ==
    \/ \E i \in 1..Len(cl.amr) : cl.amr[i] \in MfaMethods
    \/ AcrLowerHasMfa(OrEmpty(cl.acr))

(* EmailVerified with a missing claim read as true. *)
EmailVerifiedMutAbsentOk(cl) == cl.email_verified # "false"

(* auth.py:126: claims.get("email_verified", False), then used as a truth  *)
(* value.                                                                  *)
EmailVerified(cl) == cl.email_verified = "true"

(* auth.py:137-162: the status of the HTTPException the checks raise, in   *)
(* the order of the code; 0 when none is raised.                           *)
PolicyStatus(cfg, cl) ==
    IF Falsy(cl.email) THEN 400                                         \* 137-141
    ELSE IF cfg.require_email_verified /\ ~EmailVerified(cl) THEN 403   \* 144-148
    ELSE IF cfg.require_mfa /\ ~HasMfa(cl) THEN 403                     \* 151-162
    ELSE 0

(* auth.py:169-177 *)
NewUser(id, cl) ==
    User(id, cl.email, FullName(cl), "", TRUE, EmailVerified(cl), cl.sub)

(* Reconcile with updated set on every call. *)
ReconcileMutAlwaysUpdated(user, cl) ==
    LET full_name == FullName(cl)
        c1 == user.full_name # full_name /\ full_name # ""
        c2 == Falsy(user.sso_subject_id) /\ ~Falsy(cl.sub)
        c3 == user.is_verified # EmailVerified(cl)
        u1 == IF c1 THEN [user EXCEPT !.full_name = full_name] ELSE user
        u2 == IF c2 THEN [u1 EXCEPT !.sso_subject_id = cl.sub] ELSE u1
        u3 == IF c3 THEN [u2 EXCEPT !.is_verified = EmailVerified(cl)] ELSE u2
    IN  [user |-> u3, updated |-> TRUE]

(* Reconcile assigning sub whenever it differs from the stored value. *)
ReconcileMutOverwriteSub(user, cl) ==
    LET full_name == FullName(cl)
        c1 == user.full_name # full_name /\ full_name # ""
        c2 == user.sso_subject_id # cl.sub /\ ~Falsy(cl.sub)
        c3 == user.is_verified # EmailVerified(cl)
        u1 == IF c1 THEN [user EXCEPT !.full_name = full_name] ELSE user
        u2 == IF c2 THEN [u1 EXCEPT !.sso_subject_id = cl.sub] ELSE u1
        u3 == IF c3 THEN [u2 EXCEPT !.is_verified = EmailVerified(cl)] ELSE u2
    IN  [user |-> u3, updated |-> c1 \/ c2 \/ c3]

(* Reconcile that only ever raises is_verified. *)
ReconcileMutVerifiedOr(user, cl) ==
    LET full_name == FullName(cl)
        c1 == user.full_name # full_name /\ full_name # ""
        c2 == Falsy(user.sso_subject_id) /\ ~Falsy(cl.sub)
        c3 == ~user.is_verified /\ EmailVerified(cl)
        u1 == IF c1 THEN [user EXCEPT !.full_name = full_name] ELSE user
        u2 == IF c2 THEN [u1 EXCEPT !.sso_subject_id = cl.sub] ELSE u1
        u3 == IF c3 THEN [u2 EXCEPT !.is_verified = EmailVerified(cl)] ELSE u2
    IN  [user |-> u3, updated |-> c1 \/ c2 \/ c3]

(* Reconcile that also reactivates the user. *)
ReconcileMutActivate(user, cl) ==
    LET full_name == FullName(cl)
        c1 == user.full_name # full_name /\ full_name # ""
        c2 == Falsy(user.sso_subject_id) /\ ~Falsy(cl.sub)
        c3 == user.is_verified # EmailVerified(cl)
        u1 == IF c1 THEN [user EXCEPT !.full_name = full_name] ELSE user
        u2 == IF c2 THEN [u1 EXCEPT !.sso_subject_id = cl.sub] ELSE u1
        u3 == [(IF c3 THEN [u2 EXCEPT !.is_verified = EmailVerified(cl)] ELSE u2)
                  EXCEPT !.is_active = TRUE]
    IN  [user |-> u3, updated |-> c1 \/ c2 \/ c3 \/ ~user.is_active]

(* auth.py:182-192: the loaded row after the assignments, and `updated`.   *)
Reconcile(user, cl) ==
    LET full_name == FullName(cl)
        c1 == user.full_name # full_name /\ full_name # ""              \* 184
        c2 == Falsy(user.sso_subject_id) /\ ~Falsy(cl.sub)              \* 187
        c3 == user.is_verified # EmailVerified(cl)                      \* 190
        u1 == IF c1 THEN [user EXCEPT !.full_name = full_name] ELSE user
        u2 == IF c2 THEN [u1 EXCEPT !.sso_subject_id = cl.sub] ELSE u1
        u3 == IF c3 THEN [u2 EXCEPT !.is_verified = EmailVerified(cl)] ELSE u2
    IN  [user |-> u3, updated |-> c1 \/ c2 \/ c3]

ProvisionResult(status, user, us, writes) ==
    [status |-> status, user |-> user, users |-> us, writes |-> writes]

(* get_or_create_user_from_oidc with the email-verification and MFA       *)
(* checks moved behind the commit.                                         *)
get_or_create_user_from_oidcMutLateChecks(cfg, cl, us) ==
    LET late == IF cfg.require_email_verified /\ ~EmailVerified(cl) THEN 403
                ELSE IF cfg.require_mfa /\ ~HasMfa(cl) THEN 403 ELSE 200
        found == { u \in us : u.email = cl.email }
    IN
    IF Falsy(cl.email) THEN ProvisionResult(400, Absent, us, 0)
    ELSE IF found = {}
         THEN LET new == NewUser(FreshId(us), cl)
              IN  IF UniqueOk(us \cup {new})
                  THEN ProvisionResult(late, IF late = 200 THEN new.id ELSE Absent,
                                       us \cup {new}, 1)
                  ELSE ProvisionResult(500, Absent, us, 0)
         ELSE LET user == CHOOSE u \in found : TRUE
                  rec == Reconcile(user, cl)
                  after == (us \ {user}) \cup {rec.user}
              IN  IF ~rec.updated
                  THEN ProvisionResult(late, IF late = 200 THEN user.id ELSE Absent,
                                       us, 0)
                  ELSE IF UniqueOk(after)
                       THEN ProvisionResult(late, IF late = 200 THEN user.id ELSE Absent,
                                            after, 1)
                       ELSE ProvisionResult(500, Absent, us, 0)

(* auth.py:121-197.  status 200 with the id of the returned user, or the   *)
(* status of the HTTPException; 500 when the commit violates a unique      *)
(* index.  writes counts the commits that succeeded.                       *)
get_or_create_user_from_oidc(cfg, cl, us) ==
    IF PolicyStatus(cfg, cl) # 0
    THEN ProvisionResult(PolicyStatus(cfg, cl), Absent, us, 0)          \* 137-162
    ELSE LET found == { u \in us : u.email = cl.email } IN              \* 165
         IF found = {}
         THEN LET new == NewUser(FreshId(us), cl)                       \* 169-177
              IN  IF UniqueOk(us \cup {new})
                  THEN ProvisionResult(200, new.id, us \cup {new}, 1)   \* 178-180
                  ELSE ProvisionResult(500, Absent, us, 0)
         ELSE LET user == CHOOSE u \in found : TRUE
                  rec == Reconcile(user, cl)                            \* 182-192
                  after == (us \ {user}) \cup {rec.user}
              IN  IF ~rec.updated THEN ProvisionResult(200, user.id, us, 0)
                  ELSE IF UniqueOk(after)
                       THEN ProvisionResult(200, user.id, after, 1)     \* 193-195
                       ELSE ProvisionResult(500, Absent, us, 0)

(* auth.py:219-231: local token verification. *)
LocalResult(status, user, why) == [status |-> status, user |-> user, why |-> why]

(* local_verify without the lookup of auth.py:228-230. *)
local_verify_MutNoLookup(tok, us, t) ==
    LET d == JwtDecode(tok, SecretKey, {"HS256"}, "", "", FALSE, t) IN
    IF d # "ok" THEN LocalResult(401, Absent, d)
    ELSE IF tok.claims.sub = Absent
         THEN LocalResult(401, Absent, "no_sub")
    ELSE LocalResult(200, tok.claims.sub, "ok")

local_verify(tok, us, t) ==
    LET d == JwtDecode(tok, SecretKey, {"HS256"}, "", "", FALSE, t) IN
    IF d # "ok" THEN LocalResult(401, Absent, d)                        \* 225-226
    ELSE IF tok.claims.sub = Absent
         THEN LocalResult(401, Absent, "no_sub")                        \* 223-224
    ELSE IF \E u \in us : u.id = tok.claims.sub
         THEN LocalResult(200, tok.claims.sub, "ok")                    \* 231
         ELSE LocalResult(401, Absent, "no_user")                       \* 229-230

-----------------------------------------------------------------------------
(* The bearer strings requests carry. *)

IssueTimes == { k * TickLen : k \in 0..MaxTicks }

MintedTokens ==
    { create_access_token([sub |-> u], 0, at) :
          u \in {Absent, "u1", "u9"}, at \in IssueTimes }

(* Minted tokens, and tokens of an existing user that were signed with     *)
(* another secret or altered after signing.                                *)
LocalTokens ==
    MintedTokens
      \cup { [tk EXCEPT !.key = "other-secret"] :
                 tk \in { m \in MintedTokens : m.claims.sub = "u1" } }
      \cup { [tk EXCEPT !.tampered = TRUE] :
                 tk \in { m \in MintedTokens : m.claims.sub = "u1" } }

OidcClaims(iss, aud, exp, email, ev, amr) ==
    [ NoClaims EXCEPT !.iss = iss, !.aud = aud, !.exp = exp, !.sub = "abc",
                      !.email = email, !.email_verified = ev,
                      !.given_name = "Ada", !.family_name = "Lovelace",
                      !.amr = amr ]

OidcExpSoon == TickLen \div 2
OidcExpLate == (MaxDays + 1) * 86400

(* Tokens of the provider and forgeries of them: every header and signing  *)
(* key, sound or with one of tampering, foreign issuer, foreign audience   *)
(* and early expiry, all with one identity; and the identities that the    *)
(* policy rules tell apart, under a sound header.                          *)
OidcDefects ==
    { d \in [tam : BOOLEAN, iss : {Issuer, "https://evil.example"},
             aud : {ClientId, "other-app"}, exp : {OidcExpSoon, OidcExpLate}] :
        Cardinality({ x \in {"tam", "iss", "aud", "exp"} :
                        CASE x = "tam" -> d.tam
                          [] x = "iss" -> d.iss # Issuer
                          [] x = "aud" -> d.aud # ClientId
                          [] x = "exp" -> d.exp # OidcExpLate }) <= 1 }

OidcTokens ==
    { Jwt("RS256", kid, key, d.tam,
          OidcClaims(d.iss, d.aud, d.exp, "a@x.com", "true", <<"otp">>)) :
        kid \in {Absent, "k1", "k2", "k3"}, key \in {"m1", "m2"},
        d \in OidcDefects }
      \cup
    { Jwt("RS256", "k1", "m1", FALSE,
          OidcClaims(Issuer, ClientId, OidcExpLate, email, ev, amr)) :
        email \in {Absent, "a@x.com"}, ev \in {"true", "false"},
        amr \in {<<"pwd">>, <<"otp">>} }

Tokens == {Malformed} \cup LocalTokens \cup OidcTokens

InitialUsers ==
    { User("u1", "b@x.com", "Bea", "bcrypt:bea", TRUE, FALSE, Absent) }

-----------------------------------------------------------------------------
(* What a finished call returned or raised.  jwks, hit: the return value   *)
(* of get_oidc_jwks and whether it was the cached record.  oidc: the       *)
(* result of                                                               *)
(* validate_oidc_token.  prov: the status of the provisioner (0: not       *)
(* called).  local: the result of local verification (status 0: not        *)
(* attempted).  status, user: the response of get_current_user.  at: for   *)
(* a call that carries a bearer string, the time at which it was checked.  *)

NotRun == LocalResult(0, Absent, "unset")

Res(jwks, hit, oidc, prov, local, status, user, at) ==
    [ jwks |-> jwks, hit |-> hit, oidc |-> oidc, prov |-> prov,
      local |-> local, status |-> status, user |-> user, at |-> at ]

NoRes == Res(EmptyDict, FALSE, ValidateResult("unset", "unset"), 0,
             NotRun, 0, Absent, NoTime)

(* The db session of a request (Depends(get_db)): the users row the query *)
(* of auth.py:165 loaded, NoRow for None, and the commits it has made.     *)
NoRow == User(Absent, Absent, "", "", FALSE, FALSE, Absent)
NoSession == [user |-> NoRow, commits |-> 0]

(* auth.py:219-231 inside get_current_user *)
WithLocal(r, tok, us, t) ==
    LET l == local_verify(tok, us, t)
    IN  [ res |-> [r EXCEPT !.local = l, !.status = l.status, !.user = l.user],
          users |-> us ]

(* AfterValidate rejecting at once when OIDC validation gave no claims. *)
AfterValidateMutNoFallback(cfg, r, tok, v, us, t) ==
    LET r1 == [r EXCEPT !.oidc = v] IN
    IF v.tag = "claims"
    THEN LET pr == get_or_create_user_from_oidc(cfg, tok.claims, us)
         IN  [ res |-> [r1 EXCEPT !.prov = pr.status, !.status = pr.status,
                                  !.user = pr.user],
               users |-> pr.users ]
    ELSE [ res |-> [r1 EXCEPT !.status = 401], users |-> us ]

(* AfterValidate trying local verification after a provisioner rejection. *)
AfterValidateMutLocalOnReject(cfg, r, tok, v, us, t) ==
    LET r1 == [r EXCEPT !.oidc = v]
        pr == get_or_create_user_from_oidc(cfg, tok.claims, us)
    IN
    IF v.tag = "raise"
    THEN [ res |-> [r1 EXCEPT !.status = 500], users |-> us ]
    ELSE IF v.tag = "claims" /\ pr.status = 200
    THEN [ res |-> [r1 EXCEPT !.prov = pr.status, !.status = pr.status,
                              !.user = pr.user],
           users |-> pr.users ]
    ELSE WithLocal([r1 EXCEPT !.prov = IF v.tag = "claims" THEN pr.status ELSE 0],
                   tok, us, t)

(* auth.py:215-231: get_current_user from the return of                    *)
(* validate_oidc_token on.  An exception of the validator leaves           *)
(* get_current_user as it is (a 500).                                      *)
AfterValidate(cfg, r, tok, v, us, t) ==
    LET r1 == [r EXCEPT !.oidc = v] IN
    IF v.tag = "raise"
    THEN [ res |-> [r1 EXCEPT !.status = 500], users |-> us ]
    ELSE IF v.tag = "claims"                                             \* 216-217
    THEN LET pr == get_or_create_user_from_oidc(cfg, tok.claims, us)
         IN  [ res |-> [r1 EXCEPT !.prov = pr.status, !.status = pr.status,
                                  !.user = pr.user],
               users |-> pr.users ]
    ELSE WithLocal(r1, tok, us, t)

(* The rest of a call once get_oidc_jwks has returned jwks: nothing for a  *)
(* direct call, auth.py:83-118 for validate_oidc_token, and on to          *)
(* auth.py:216-231 for get_current_user.                                   *)
AfterJwks(cfg, e, tok, jwks, hit, us, t) ==
    LET r == [NoRes EXCEPT !.jwks = jwks, !.hit = hit,
                           !.at = IF e = "jwks" THEN NoTime ELSE t]
        v == validate_with_jwks(cfg, tok, jwks, t)
    IN  CASE e = "jwks"     -> [res |-> r, users |-> us]
          [] e = "validate" -> [res |-> [r EXCEPT !.oidc = v], users |-> us]
          [] e = "user"     -> AfterValidate(cfg, r, tok, v, us, t)

-----------------------------------------------------------------------------
(* JwksStart without the issuer check of auth.py:51-52. *)
JwksStartMutNoIssuerCheck(cfg, cache, ctime, t) ==
    IF CacheValid(cache, ctime, t)
    THEN [ret |-> TRUE, jwks |-> cache, hit |-> TRUE]
    ELSE [ret |-> FALSE, jwks |-> EmptyDict, hit |-> FALSE]

(* auth.py:47-52: get_oidc_jwks up to its first request.  ret: it returns  *)
(* at once, with jwks; otherwise it goes on to fetch.                      *)
JwksStart(cfg, cache, ctime, t) ==
    IF CacheValid(cache, ctime, t)
    THEN [ret |-> TRUE, jwks |-> cache, hit |-> TRUE]                     \* 48-49
    ELSE IF cfg.oidc_issuer = ""
    THEN [ret |-> TRUE, jwks |-> EmptyDict, hit |-> FALSE]                \* 51-52
    ELSE [ret |-> FALSE, jwks |-> EmptyDict, hit |-> FALSE]

JwksUri == "https://idp.example/jwks"
DiscoveryResponses == {"error", "no_jwks_uri", JwksUri}
JwksResponses ==
    {[ok |-> FALSE, body |-> EmptyDict]} \cup {[ok |-> TRUE, body |-> b] : b \in JwksBodies}

(* The key-set requests (auth.py:65) that have been issued and not yet     *)
(* answered, oldest first, and those among them issued before a request    *)
(* whose answer has already been stored (auth.py:67-68).                   *)
NoFetches == [order |-> <<>>, overtaken |-> {}]

Issued(f, p) == [f EXCEPT !.order = Append(f.order, p)]

Completed(f, p, stored) ==
    LET idx == CHOOSE i \in 1..Len(f.order) : f.order[i] = p
        earlier == { f.order[i] : i \in 1..(idx - 1) }
    IN  [ order |-> SelectSeq(f.order, LAMBDA q : q # p),
          overtaken |-> (IF stored THEN f.overtaken \cup earlier
                         ELSE f.overtaken) \ {p} ]

(* What a router endpoint answered to the Principal its dependency         *)
(* resolved: status 0 and no user before the first request.                *)
NoApi == [endpoint |-> "none", user |-> Absent, status |-> 0]

Finish(p, out) ==
    /\ pc' = [pc EXCEPT ![p] = "done"]
    /\ res' = [res EXCEPT ![p] = out.res]
    /\ users' = out.users

(* A request enters e (get_oidc_jwks, validate_oidc_token or               *)
(* get_current_user) with bearer string tok and runs to its first          *)
(* suspension or to its end.                                               *)
Call(p, e, tok) ==
    /\ pc[p] = "idle"
    /\ UNCHANGED <<fetches, apiVars>>
    /\ entry' = [entry EXCEPT ![p] = e]
    /\ token' = [token EXCEPT ![p] = tok]
    /\ UNCHANGED <<settings, now, jwks_cache, jwks_cache_time, jwks_uri, session>>
    /\ IF e = "user" /\ tok.form = "none"                         \* 210-211
       THEN /\ Finish(p, [res |-> [NoRes EXCEPT !.status = 401, !.at = now],
                          users |-> users])
            /\ UNCHANGED reqs
       ELSE IF e = "user" /\ settings.oidc_issuer = ""             \* 214, 219
       THEN /\ Finish(p, WithLocal([NoRes EXCEPT !.at = now], tok, users, now))
            /\ UNCHANGED reqs
       ELSE IF e = "validate" /\ settings.oidc_issuer = ""         \* 78-79
       THEN /\ Finish(p, [res |-> [NoRes EXCEPT
                                     !.oidc = ValidateResult("None", "no_issuer"),
                                     !.at = now],
                          users |-> users])
            /\ UNCHANGED reqs
       ELSE LET s == JwksStart(settings, jwks_cache, jwks_cache_time, now) IN
            IF s.ret
            THEN /\ Finish(p, AfterJwks(settings, e, tok, s.jwks, s.hit,
                                        users, now))
                 /\ UNCHANGED reqs
            ELSE /\ pc' = [pc EXCEPT ![p] = "discovery"]           \* 56-58
                 /\ reqs' = [reqs EXCEPT ![p] = 1]
                 /\ UNCHANGED <<res, users>>

(* DiscoveryResponse sending the discovery request again after an error. *)
DiscoveryResponseMutRetry(p, r) ==
    /\ pc[p] = "discovery"
    /\ UNCHANGED apiVars
    /\ UNCHANGED <<settings, now, jwks_cache, jwks_cache_time, entry, token, session>>
    /\ IF r = "error" /\ reqs[p] = 1
       THEN /\ reqs' = [reqs EXCEPT ![p] = 2]
            /\ UNCHANGED <<pc, res, users, jwks_uri, fetches>>
       ELSE IF r \in {"error", "no_jwks_uri"}
       THEN /\ Finish(p, AfterJwks(settings, entry[p], token[p], EmptyDict,
                                   FALSE, users, now))
            /\ UNCHANGED <<reqs, jwks_uri, fetches>>
       ELSE /\ pc' = [pc EXCEPT ![p] = "jwks"]
            /\ jwks_uri' = [jwks_uri EXCEPT ![p] = r]
            /\ reqs' = [reqs EXCEPT ![p] = 2]
            /\ fetches' = Issued(fetches, p)
            /\ UNCHANGED <<res, users>>

(* auth.py:58-65: the discovery request ends.  "error": the request, its   *)
(* status or its body failed (58-60 raise, 70-73); "no_jwks_uri": the      *)
(* document has none (64, 73); otherwise the key-set request is issued.    *)
DiscoveryResponse(p, r) ==
    /\ pc[p] = "discovery"
    /\ UNCHANGED apiVars
    /\ UNCHANGED <<settings, now, jwks_cache, jwks_cache_time, entry, token, session>>
    /\ IF r \in {"error", "no_jwks_uri"}
       THEN /\ Finish(p, AfterJwks(settings, entry[p], token[p], EmptyDict,
                                   FALSE, users, now))
            /\ UNCHANGED <<reqs, jwks_uri, fetches>>
       ELSE /\ pc' = [pc EXCEPT ![p] = "jwks"]
            /\ jwks_uri' = [jwks_uri EXCEPT ![p] = r]
            /\ reqs' = [reqs EXCEPT ![p] = 2]
            /\ fetches' = Issued(fetches, p)
            /\ UNCHANGED <<res, users>>

(* JwksResponse returning the cached record when the request failed. *)
JwksResponseMutServeStale(p, r) ==
    /\ pc[p] = "jwks"
    /\ UNCHANGED apiVars
    /\ fetches' = Completed(fetches, p, r.ok)
    /\ UNCHANGED <<settings, now, entry, token, reqs, jwks_uri, session>>
    /\ IF ~r.ok
       THEN /\ Finish(p, AfterJwks(settings, entry[p], token[p], jwks_cache,
                                   FALSE, users, now))
            /\ UNCHANGED <<jwks_cache, jwks_cache_time>>
       ELSE /\ jwks_cache' = r.body
            /\ jwks_cache_time' = now
            /\ Finish(p, AfterJwks(settings, entry[p], token[p],
                                   r.body, FALSE, users, now))

(* JwksResponse storing the key set without its fetch time. *)
JwksResponseMutTimeKept(p, r) ==
    /\ pc[p] = "jwks"
    /\ UNCHANGED apiVars
    /\ fetches' = Completed(fetches, p, r.ok)
    /\ UNCHANGED <<settings, now, entry, token, reqs, jwks_uri, session>>
    /\ IF ~r.ok
       THEN /\ Finish(p, AfterJwks(settings, entry[p], token[p], EmptyDict,
                                   FALSE, users, now))
            /\ UNCHANGED <<jwks_cache, jwks_cache_time>>
       ELSE /\ jwks_cache' = r.body
            /\ UNCHANGED jwks_cache_time
            /\ Finish(p, AfterJwks(settings, entry[p], token[p],
                                   r.body, FALSE, users, now))

(* auth.py:65-73: the key-set request ends; ~r.ok: the request, its       *)
(* status or its body failed.                                              *)
JwksResponse(p, r) ==
    /\ pc[p] = "jwks"
    /\ UNCHANGED apiVars
    /\ fetches' = Completed(fetches, p, r.ok)
    /\ UNCHANGED <<settings, now, entry, token, reqs, jwks_uri, session>>
    /\ IF ~r.ok                                                   \* 66, 70-73
       THEN /\ Finish(p, AfterJwks(settings, entry[p], token[p], EmptyDict,
                                   FALSE, users, now))
            /\ UNCHANGED <<jwks_cache, jwks_cache_time>>
       ELSE /\ jwks_cache' = r.body                                \* 67
            /\ jwks_cache_time' = now                              \* 68
            /\ Finish(p, AfterJwks(settings, entry[p], token[p],    \* 69
                                   r.body, FALSE, users, now))

(* The caller has taken the result; the request slot is free again. *)
Return(p) ==
    /\ pc[p] = "done"
    /\ UNCHANGED <<fetches, apiVars>>
    /\ pc' = [pc EXCEPT ![p] = "idle"]
    /\ entry' = [entry EXCEPT ![p] = "none"]
    /\ token' = [token EXCEPT ![p] = NoToken]
    /\ reqs' = [reqs EXCEPT ![p] = 0]
    /\ jwks_uri' = [jwks_uri EXCEPT ![p] = Absent]
    /\ res' = [res EXCEPT ![p] = NoRes]
    /\ session' = [session EXCEPT ![p] = NoSession]
    /\ UNCHANGED <<settings, now, jwks_cache, jwks_cache_time, users>>

(* Time passes. *)
Tick(t) ==
    /\ t > now
    /\ UNCHANGED <<fetches, apiVars>>
    /\ now' = t
    /\ UNCHANGED <<settings, jwks_cache, jwks_cache_time, users,
                   pc, entry, token, reqs, jwks_uri, res, session>>

InitCommon ==
    /\ now = 0
    /\ jwks_cache = EmptyDict
    /\ jwks_cache_time = NoTime
    /\ users = InitialUsers
    /\ pc = [p \in Procs |-> "idle"]
    /\ entry = [p \in Procs |-> "none"]
    /\ token = [p \in Procs |-> NoToken]
    /\ reqs = [p \in Procs |-> 0]
    /\ jwks_uri = [p \in Procs |-> Absent]
    /\ res = [p \in Procs |-> NoRes]
    /\ session = [p \in Procs |-> NoSession]
    /\ fetches = NoFetches
    /\ projects = {} /\ tasks = {} /\ states = {} /\ cycles = {}
    /\ api = NoApi

(* Requests through get_current_user and validate_oidc_token, one at a     *)
(* time, under every configuration. *)
Init ==
    /\ settings \in SettingsSpace
    /\ InitCommon

Next ==
    \/ \E tok \in Tokens \cup {NoToken} : Call(1, "user", tok)
    \/ \E tok \in Tokens : Call(1, "validate", tok)
    \/ \E r \in DiscoveryResponses : DiscoveryResponse(1, r)
    \/ \E r \in JwksResponses : JwksResponse(1, r)
    \/ Return(1)
    \/ \E t \in IssueTimes : Tick(t)

Spec == Init /\ [][Next]_vars

(* Overlapping calls of get_oidc_jwks on the shared cache. *)
InitCache ==
    /\ settings \in { c \in SettingsSpace :
                         /\ c.oidc_client_id = ""
                         /\ c.require_email_verified
                         /\ ~c.require_mfa }
    /\ InitCommon

NextCache ==
    \/ \E p \in Procs : Call(p, "jwks", NoToken)
    \/ \E p \in Procs, r \in DiscoveryResponses : DiscoveryResponse(p, r)
    \/ \E p \in Procs, r \in JwksResponses : JwksResponse(p, r)
    \/ \E p \in Procs : Return(p)
    \/ \E t \in NowValues : Tick(t)

SpecCache == InitCache /\ [][NextCache]_vars


-----------------------------------------------------------------------------
(* A deployment without OIDC: calls of get_oidc_jwks and                   *)
(* validate_oidc_token when settings.oidc_issuer is empty.                 *)
InitNoIssuer ==
    /\ settings \in { c \in SettingsSpace : c.oidc_issuer = "" }
    /\ InitCommon

NextNoIssuer ==
    \/ \E p \in Procs : Call(p, "jwks", NoToken)
    \/ \E tok \in Tokens : Call(1, "validate", tok)
    \/ \E p \in Procs : Return(p)
    \/ \E t \in IssueTimes : Tick(t)

SpecNoIssuer == InitNoIssuer /\ [][NextNoIssuer]_vars

-----------------------------------------------------------------------------
(* Direct calls of get_or_create_user_from_oidc with validated claims.     *)

ProvNames ==
    { [g |-> "Ada",  f |-> "Lovelace", n |-> Absent],
      [g |-> Absent, f |-> Absent,     n |-> "Countess"],
      [g |-> Absent, f |-> Absent,     n |-> Absent] }

ProvClaim(email, ev, sub, nm, amr, acr) ==
    [ NoClaims EXCEPT !.iss = Issuer, !.aud = ClientId, !.exp = OidcExpLate,
                      !.sub = sub, !.email = email, !.email_verified = ev,
                      !.given_name = nm.g, !.family_name = nm.f, !.name = nm.n,
                      !.amr = amr, !.acr = acr ]

ProvEmails == {Absent, "", "a@x.com", "b@x.com"}
ProvSubs   == {Absent, "abc", "xyz"}
ProvAmrs   == {<<>>, <<"pwd">>} \cup { <<"pwd", m>> : m \in MfaMethods }
ProvAcrs   == {Absent, "urn:pwd", "mfa", "urn:MFA:otp"}

(* Every identity under one authentication context, and every             *)
(* authentication context under a few identities.                          *)
ProvClaims ==
    { ProvClaim(e, v, s, nm, <<"pwd", "otp">>, Absent) :
          e \in ProvEmails, v \in {Absent, "true", "false"},
          s \in ProvSubs, nm \in ProvNames }
      \cup
    { ProvClaim(e, v, "abc", [g |-> "Ada", f |-> "Lovelace", n |-> Absent], a, c) :
          e \in {Absent, "a@x.com"}, v \in {"true", "false"},
          a \in ProvAmrs, c \in ProvAcrs }

ProvSettings ==
    { c \in SettingsSpace : c.oidc_issuer = Issuer /\ c.oidc_client_id = ClientId }

ProvInitialUsers ==
    { {},
      InitialUsers,
      { User("u1", "b@x.com", "Bea", "bcrypt:bea", FALSE, TRUE, "xyz") } }

ValidatedToken(cl) == Jwt("RS256", "k1", "m1", FALSE, cl)

(* auth.py:121-197 as one step: no other request touches the table while   *)
(* the call runs.                                                          *)
Provision(p, cl) ==
    /\ pc[p] = "idle"
    /\ UNCHANGED <<fetches, apiVars>>
    /\ LET r == get_or_create_user_from_oidc(settings, cl, users) IN
       /\ pc' = [pc EXCEPT ![p] = "done"]
       /\ entry' = [entry EXCEPT ![p] = "provision"]
       /\ token' = [token EXCEPT ![p] = ValidatedToken(cl)]
       /\ res' = [res EXCEPT ![p] = [NoRes EXCEPT !.prov = r.status,
                                                  !.status = r.status,
                                                  !.user = r.user]]
       /\ users' = r.users
       /\ session' = [session EXCEPT ![p] = [user |-> NoRow, commits |-> r.writes]]
    /\ UNCHANGED <<settings, now, jwks_cache, jwks_cache_time, reqs, jwks_uri>>

InitProv ==
    /\ settings \in ProvSettings
    /\ now = 0
    /\ jwks_cache = EmptyDict
    /\ jwks_cache_time = NoTime
    /\ users \in ProvInitialUsers
    /\ pc = [p \in Procs |-> "idle"]
    /\ entry = [p \in Procs |-> "none"]
    /\ token = [p \in Procs |-> NoToken]
    /\ reqs = [p \in Procs |-> 0]
    /\ jwks_uri = [p \in Procs |-> Absent]
    /\ res = [p \in Procs |-> NoRes]
    /\ session = [p \in Procs |-> NoSession]
    /\ fetches = NoFetches
    /\ projects = {} /\ tasks = {} /\ states = {} /\ cycles = {}
    /\ api = NoApi

NextProv ==
    \/ \E cl \in ProvClaims : Provision(1, cl)
    \/ Return(1)

SpecProv == InitProv /\ [][NextProv]_vars

-----------------------------------------------------------------------------
(* Calls of get_or_create_user_from_oidc from requests served by different *)
(* worker processes on one database: the statements of a call are          *)
(* interleaved with those of the other at the query (auth.py:165) and at   *)
(* the commit (auth.py:179, 194).                                          *)

ProvWorkers == {1, 2}

OverlapClaims ==
    { ProvClaim(e, v, s, [g |-> "Ada", f |-> "Lovelace", n |-> Absent],
                <<"pwd", "otp">>, Absent) :
          e \in {"a@x.com", "b@x.com"}, v \in {"true", "false"},
          s \in {"abc", "xyz"} }

EndProvision(p, status, user, us, writes) ==
    /\ pc' = [pc EXCEPT ![p] = "done"]
    /\ res' = [res EXCEPT ![p] = [NoRes EXCEPT !.prov = status,
                                               !.status = status,
                                               !.user = user]]
    /\ users' = us
    /\ session' = [session EXCEPT ![p].commits = writes]

(* auth.py:124-165: the policy checks and the query. *)
ProvQuery(p, cl) ==
    /\ pc[p] = "idle"
    /\ UNCHANGED <<fetches, apiVars>>
    /\ entry' = [entry EXCEPT ![p] = "provision"]
    /\ token' = [token EXCEPT ![p] = ValidatedToken(cl)]
    /\ UNCHANGED <<settings, now, jwks_cache, jwks_cache_time, reqs, jwks_uri>>
    /\ IF PolicyStatus(settings, cl) # 0
       THEN EndProvision(p, PolicyStatus(settings, cl), Absent, users, 0)
       ELSE LET found == { u \in users : u.email = cl.email } IN       \* 165
            /\ pc' = [pc EXCEPT ![p] = "commit"]
            /\ session' = [session EXCEPT ![p].user =
                              IF found = {} THEN NoRow
                              ELSE CHOOSE u \in found : TRUE]
            /\ UNCHANGED <<res, users>>

(* The UPDATE a commit flushes for a loaded row: the columns assigned a    *)
(* new value, on the row with the loaded primary key.                      *)
FlushUpdate(row, loaded, new) ==
    [ f \in DOMAIN row |-> IF new[f] # loaded[f] THEN new[f] ELSE row[f] ]

(* auth.py:167-197 on the row the query loaded. *)
ProvCommit(p) ==
    /\ pc[p] = "commit"
    /\ UNCHANGED <<fetches, apiVars>>
    /\ UNCHANGED <<settings, now, jwks_cache, jwks_cache_time, reqs, jwks_uri,
                   entry, token>>
    /\ LET cl == token[p].claims
           loaded == session[p].user
       IN  IF loaded = NoRow
           THEN LET new == NewUser(FreshId(users), cl)                  \* 169-177
                IN  IF UniqueOk(users \cup {new})
                    THEN EndProvision(p, 200, new.id, users \cup {new}, 1)
                    ELSE EndProvision(p, 500, Absent, users, 0)
           ELSE LET rec == Reconcile(loaded, cl)                        \* 182-192
                    row == CHOOSE u \in users : u.id = loaded.id
                    after == (users \ {row})
                                 \cup {FlushUpdate(row, loaded, rec.user)}
                IN  IF ~rec.updated
                    THEN EndProvision(p, 200, loaded.id, users, 0)
                    ELSE IF UniqueOk(after)
                         THEN EndProvision(p, 200, loaded.id, after, 1) \* 193-195
                         ELSE EndProvision(p, 500, Absent, users, 0)

NextProvOverlap ==
    \/ \E p \in ProvWorkers, cl \in OverlapClaims : ProvQuery(p, cl)
    \/ \E p \in ProvWorkers : ProvCommit(p)
    \/ \E p \in ProvWorkers : Return(p)

SpecProvOverlap == InitProv /\ [][NextProvOverlap]_vars

-----------------------------------------------------------------------------
(* The router endpoints (src/app/routers).  An endpoint runs as one step:  *)
(* its handler holds no await.  u is the users row its dependency          *)
(* (get_current_user or get_current_active_user) resolved for the request. *)

(* Columns a handler reads or writes in a condition of the model; titles,  *)
(* colours, dates and State.sequence are left out.                         *)
Project(id, task_count) == [id |-> id, task_count |-> task_count]
Task(id, project_id, state_id, sort_order) ==
    [id |-> id, project_id |-> project_id, state_id |-> state_id,
     sort_order |-> sort_order]
State(id, name, project_id, is_default) ==
    [id |-> id, name |-> name, project_id |-> project_id, is_default |-> is_default]
Cycle(id, project_id, is_active) ==
    [id |-> id, project_id |-> project_id, is_active |-> is_active]

(* Principals a request can resolve to: get_current_user returns a row     *)
(* whatever its is_active.                                                 *)
ApiUsers ==
    { User("u1", "a@x.com", "Ada Lovelace", "", TRUE, TRUE, "abc"),
      User("u2", "b@x.com", "Bea", "bcrypt:bea", FALSE, TRUE, Absent) }

(* auth.py:234-237: the status get_current_active_user raises, 0 if none. *)
get_current_active_user(current_user) ==
    IF ~current_user.is_active THEN 400 ELSE 0

Respond(endpoint, u, status) ==
    api' = [endpoint |-> endpoint, user |-> u.id, status |-> status]

TaskId(project_id, number) == <<project_id, number>>

(* tasks.py:18-69 *)
create_task(u, project_id, state_id) ==
    /\ UNCHANGED <<settings, now, jwks_cache, jwks_cache_time, users, pc, entry,
                   token, reqs, jwks_uri, res, session, fetches, states, cycles>>
    /\ IF get_current_active_user(u) # 0                                \* 21
       THEN Respond("create_task", u, 400) /\ UNCHANGED <<projects, tasks>>
       ELSE IF \A pr \in projects : pr.id # project_id                  \* 25-27
       THEN Respond("create_task", u, 404) /\ UNCHANGED <<projects, tasks>>
       ELSE LET project == CHOOSE pr \in projects : pr.id = project_id
                task_number == project.task_count + 1                   \* 30-31
                defaults == { st \in states : st.project_id = project_id
                                              /\ st.is_default }       \* 36-39
                choices == IF state_id # Absent THEN {state_id}         \* 34-41
                           ELSE IF defaults = {} THEN {Absent}
                           ELSE { st.id : st \in defaults }
            IN  /\ project.task_count < MaxTasks
                /\ \E sid \in choices :
                      LET max_order == Cardinality(                     \* 44-47
                              { t \in tasks : t.project_id = project_id
                                              /\ t.state_id = sid })
                      IN  tasks' = tasks \cup                           \* 54-67
                              { Task(TaskId(project_id, task_number),
                                     project_id, sid, max_order) }
                /\ projects' = (projects \ {project})
                                  \cup {Project(project_id, task_number)}
                /\ Respond("create_task", u, 201)

(* tasks.py:147-158 *)
delete_task(u, task_id) ==
    /\ UNCHANGED <<settings, now, jwks_cache, jwks_cache_time, users, pc, entry,
                   token, reqs, jwks_uri, res, session, fetches, projects,
                   states, cycles>>
    /\ IF get_current_active_user(u) # 0                                \* 150
       THEN Respond("delete_task", u, 400) /\ UNCHANGED tasks
       ELSE IF \A t \in tasks : t.id # task_id                          \* 153-155
       THEN Respond("delete_task", u, 404) /\ UNCHANGED tasks
       ELSE /\ tasks' = { t \in tasks : t.id # task_id }                \* 157-158
            /\ Respond("delete_task", u, 204)

(* tasks.py:188-219: the bulk UPDATEs of move_task on the rows of the      *)
(* task's project.                                                         *)
Shifted(t, task, new_state_id, new_order) ==
    LET old_state_id == task.state_id
        old_order == task.sort_order
        so == t.sort_order
    IN
    IF t.project_id # task.project_id THEN t
    ELSE IF old_state_id = new_state_id
    THEN IF new_order > old_order
         THEN IF t.state_id = new_state_id /\ so > old_order /\ so <= new_order
              THEN [t EXCEPT !.sort_order = so - 1] ELSE t              \* 191-196
         ELSE IF t.state_id = new_state_id /\ so >= new_order /\ so < old_order
              THEN [t EXCEPT !.sort_order = so + 1] ELSE t              \* 199-204
    ELSE IF t.state_id = old_state_id /\ so > old_order
         THEN [t EXCEPT !.sort_order = so - 1]                          \* 208-212
         ELSE IF t.state_id = new_state_id /\ so >= new_order
         THEN [t EXCEPT !.sort_order = so + 1]                          \* 215-219
         ELSE t

(* tasks.py:161-225 *)
move_task(u, task_id, new_state_id, new_order) ==
    /\ UNCHANGED <<settings, now, jwks_cache, jwks_cache_time, users, pc, entry,
                   token, reqs, jwks_uri, res, session, fetches, projects,
                   states, cycles>>
    /\ IF get_current_active_user(u) # 0                                \* 166
       THEN Respond("move_task", u, 400) /\ UNCHANGED tasks
       ELSE IF \A t \in tasks : t.id # task_id                          \* 170-175
       THEN Respond("move_task", u, 404) /\ UNCHANGED tasks
       ELSE IF \A st \in states : st.id # new_state_id                  \* 178-180
       THEN Respond("move_task", u, 404) /\ UNCHANGED tasks
       ELSE LET task == CHOOSE t \in tasks : t.id = task_id
                new_state == CHOOSE st \in states : st.id = new_state_id
            IN  IF new_state.project_id # task.project_id               \* 181-182
                THEN Respond("move_task", u, 400) /\ UNCHANGED tasks
                ELSE /\ tasks' =
                          { Shifted(t, task, new_state_id, new_order) :
                                t \in tasks \ {task} }
                          \cup { [task EXCEPT !.state_id = new_state_id,  \* 221
                                              !.sort_order = new_order] } \* 222
                     /\ Respond("move_task", u, 200)

(* new_order is a position of the target column: one of its present        *)
(* positions, or the one past the last when the task comes from another    *)
(* column.                                                                 *)
InTargetRange(task_id, new_state_id, new_order) ==
    \E task \in tasks :
        /\ task.id = task_id
        /\ LET n == Cardinality({ t \in tasks : t.project_id = task.project_id
                                               /\ t.state_id = new_state_id })
           IN  new_order \in 0..(IF task.state_id = new_state_id THEN n - 1 ELSE n)

TaskIds == { TaskId("P1", n) : n \in 1..MaxTasks }

(* The process state of a deployment without OIDC in which no request of  *)
(* the authentication layer is in progress.                                *)
InitApi ==
    /\ settings \in { c \in SettingsSpace :
                         /\ c.oidc_issuer = "" /\ c.oidc_client_id = ""
                         /\ c.require_email_verified /\ ~c.require_mfa }
    /\ now = 0
    /\ jwks_cache = EmptyDict
    /\ jwks_cache_time = NoTime
    /\ users = ApiUsers
    /\ pc = [p \in Procs |-> "idle"]
    /\ entry = [p \in Procs |-> "none"]
    /\ token = [p \in Procs |-> NoToken]
    /\ reqs = [p \in Procs |-> 0]
    /\ jwks_uri = [p \in Procs |-> Absent]
    /\ res = [p \in Procs |-> NoRes]
    /\ session = [p \in Procs |-> NoSession]
    /\ fetches = NoFetches
    /\ api = NoApi

(* The task endpoints on project P1 with two columns, next to a project    *)
(* P2 with a column of its own.                                            *)
InitTasks ==
    /\ InitApi
    /\ projects = { Project("P1", 0), Project("P2", 0) }
    /\ states = { State("s1", "Backlog", "P1", TRUE),
                  State("s2", "Todo", "P1", FALSE),
                  State("s3", "Backlog", "P2", TRUE) }
    /\ tasks = {}
    /\ cycles = {}

NextTasks ==
    \/ \E u \in users, project_id \in {"P1", "P0"}, state_id \in {Absent, "s1", "s2"} :
          create_task(u, project_id, state_id)
    \/ \E u \in users, task_id \in TaskIds : delete_task(u, task_id)
    \/ \E u \in users, task_id \in TaskIds, new_state_id \in {"s1", "s2", "s3", "s0"},
          new_order \in 0..MaxTasks :
          /\ \/ (\A t \in tasks : t.id # task_id) /\ new_state_id = "s1" /\ new_order = 0
             \/ InTargetRange(task_id, new_state_id, new_order)
          /\ move_task(u, task_id, new_state_id, new_order)

SpecTasks == InitTasks /\ [][NextTasks]_vars

-----------------------------------------------------------------------------
(* The state endpoints (routers/states.py) and activate_cycle              *)
(* (routers/cycles.py); their dependency is get_current_user.              *)

(* models/state.py:43-50 *)
DEFAULT_STATES ==
    << [name |-> "Backlog",     is_default |-> TRUE],
       [name |-> "Todo",        is_default |-> FALSE],
       [name |-> "In Progress", is_default |-> FALSE],
       [name |-> "In Review",   is_default |-> FALSE],
       [name |-> "Done",        is_default |-> FALSE],
       [name |-> "Cancelled",   is_default |-> FALSE] >>

(* str.lower() / func.lower on the names of the model. *)
Lower(name) ==
    CASE name = "Backlog" -> "backlog"
      [] name = "QA" -> "qa"
      [] OTHER -> name

(* uuid4 primary keys of new states rows: the first ids no row has. *)
StateIdSeq == <<"s1", "s2", "s3", "s4", "s5", "s6", "s7">>

FreeStateIds(sts) ==
    SelectSeq(StateIdSeq, LAMBDA i : \A st \in sts : st.id # i)

(* states.py:70-73 and states.py:123-127: the bulk UPDATE that clears      *)
(* is_default on the project's rows other than skip_id.                    *)
UnsetDefaultsMutNone(sts, project_id, skip_id) == sts

UnsetDefaults(sts, project_id, skip_id) ==
    { IF st.project_id = project_id /\ st.is_default /\ st.id # skip_id
      THEN [st EXCEPT !.is_default = FALSE] ELSE st : st \in sts }

(* states.py:34-79 *)
create_state(u, state_data) ==
    /\ UNCHANGED <<settings, now, jwks_cache, jwks_cache_time, users, pc, entry,
                   token, reqs, jwks_uri, res, session, fetches, projects,
                   tasks, cycles>>
    /\ IF \A pr \in projects : pr.id # state_data.project_id            \* 41-43
       THEN Respond("create_state", u, 404) /\ UNCHANGED states
       ELSE IF \E st \in states : /\ st.project_id = state_data.project_id
                                  /\ Lower(st.name) = Lower(state_data.name)
       THEN Respond("create_state", u, 400) /\ UNCHANGED states         \* 46-51
       ELSE /\ Len(FreeStateIds(states)) >= 1
            /\ LET state == State(FreeStateIds(states)[1], state_data.name,  \* 58-66
                                  state_data.project_id, state_data.is_default)
                   others == IF state.is_default                        \* 69-73
                             THEN UnsetDefaults(states, state_data.project_id, Absent)
                             ELSE states
               IN  states' = others \cup {state}                        \* 75-76
            /\ Respond("create_state", u, 201)

(* states.py:96-135.  state_data.name is Absent and state_data.is_default  *)
(* is "unset" for a field the request body does not set.                   *)
update_state(u, state_id, state_data) ==
    /\ UNCHANGED <<settings, now, jwks_cache, jwks_cache_time, users, pc, entry,
                   token, reqs, jwks_uri, res, session, fetches, projects,
                   tasks, cycles>>
    /\ IF \A st \in states : st.id # state_id                           \* 104-106
       THEN Respond("update_state", u, 404) /\ UNCHANGED states
       ELSE LET state == CHOOSE st \in states : st.id = state_id
            IN  IF /\ state_data.name # Absent                          \* 109-116
                   /\ Lower(state_data.name) # Lower(state.name)
                   /\ \E st \in states : /\ st.project_id = state.project_id
                                         /\ Lower(st.name) = Lower(state_data.name)
                                         /\ st.id # state_id
                THEN Respond("update_state", u, 400) /\ UNCHANGED states
                ELSE LET others == IF state_data.is_default = "true"    \* 122-127
                                   THEN UnsetDefaults(states \ {state},
                                                      state.project_id, state_id)
                                   ELSE states \ {state}
                         named == IF state_data.name # Absent           \* 129-130
                                  THEN [state EXCEPT !.name = state_data.name]
                                  ELSE state
                         updated == IF state_data.is_default # "unset"
                                    THEN [named EXCEPT !.is_default =
                                              (state_data.is_default = "true")]
                                    ELSE named
                     IN  /\ states' = others \cup {updated}             \* 132
                         /\ Respond("update_state", u, 200)

(* states.py:138-161 *)
delete_state(u, state_id) ==
    /\ UNCHANGED <<settings, now, jwks_cache, jwks_cache_time, users, pc, entry,
                   token, reqs, jwks_uri, res, session, fetches, projects,
                   tasks, cycles>>
    /\ IF \A st \in states : st.id # state_id                           \* 145-147
       THEN Respond("delete_state", u, 404) /\ UNCHANGED states
       ELSE IF \E t \in tasks : t.state_id = state_id                   \* 151-156
       THEN Respond("delete_state", u, 400) /\ UNCHANGED states
       ELSE /\ states' = { st \in states : st.id # state_id }           \* 158-159
            /\ Respond("delete_state", u, 204)

(* states.py:164-200 *)
initialize_project_states(u, project_id) ==
    /\ UNCHANGED <<settings, now, jwks_cache, jwks_cache_time, users, pc, entry,
                   token, reqs, jwks_uri, res, session, fetches, projects,
                   tasks, cycles>>
    /\ IF \A pr \in projects : pr.id # project_id                       \* 171-173
       THEN Respond("initialize_project_states", u, 404) /\ UNCHANGED states
       ELSE IF \E st \in states : st.project_id = project_id            \* 176-178
       THEN Respond("initialize_project_states", u, 400) /\ UNCHANGED states
       ELSE /\ Len(FreeStateIds(states)) >= Len(DEFAULT_STATES)
            /\ states' = states \cup                                    \* 182-194
                  { State(FreeStateIds(states)[i], DEFAULT_STATES[i].name,
                          project_id, DEFAULT_STATES[i].is_default) :
                        i \in 1..Len(DEFAULT_STATES) }
            /\ Respond("initialize_project_states", u, 200)

(* cycles.py:226-249 *)
activate_cycle(u, cycle_id) ==
    /\ UNCHANGED <<settings, now, jwks_cache, jwks_cache_time, users, pc, entry,
                   token, reqs, jwks_uri, res, session, fetches, projects,
                   tasks, states>>
    /\ IF \A cy \in cycles : cy.id # cycle_id                           \* 233-235
       THEN Respond("activate_cycle", u, 404) /\ UNCHANGED cycles
       ELSE LET cycle == CHOOSE cy \in cycles : cy.id = cycle_id
            IN  /\ cycles' = { IF cy.id = cycle_id                      \* 244
                               THEN [cy EXCEPT !.is_active = TRUE]
                               ELSE IF cy.project_id = cycle.project_id  \* 238-241
                               THEN [cy EXCEPT !.is_active = FALSE]
                               ELSE cy : cy \in cycles }
                /\ Respond("activate_cycle", u, 200)

(* One project with two cycles, either without states or already          *)
(* initialised and with a task in its default state.                       *)
InitStates ==
    /\ InitApi
    /\ cycles = { Cycle("c1", "P1", TRUE), Cycle("c2", "P1", FALSE) }
    /\ \/ projects = { Project("P1", 0) } /\ states = {} /\ tasks = {}
       \/ /\ projects = { Project("P1", 1) }
          /\ states = { State(StateIdSeq[i], DEFAULT_STATES[i].name, "P1",
                               DEFAULT_STATES[i].is_default) :
                             i \in 1..Len(DEFAULT_STATES) }
          /\ tasks = { Task(TaskId("P1", 1), "P1", "s1", 0) }

StateCreates ==
    [ project_id : {"P1", "P0"}, name : {"QA", "backlog"},
      is_default : BOOLEAN ]

StateUpdates == [ name : {Absent, "QA"}, is_default : {"unset", "true", "false"} ]

(* The state ids the update and delete requests name: the first two rows,  *)
(* the row created after an initialisation, and an id no row has.          *)
RequestedStateIds == {"s1", "s2", "s7", "s0"}

NextStates ==
    \/ \E u \in users, state_data \in StateCreates : create_state(u, state_data)
    \/ \E u \in users, state_id \in RequestedStateIds, state_data \in StateUpdates :
          update_state(u, state_id, state_data)
    \/ \E u \in users, state_id \in RequestedStateIds : delete_state(u, state_id)
    \/ \E u \in users, project_id \in {"P1", "P0"} :
          initialize_project_states(u, project_id)
    \/ \E u \in users, cycle_id \in {"c1", "c2", "c0"} : activate_cycle(u, cycle_id)

SpecStates == InitStates /\ [][NextStates]_vars

-----------------------------------------------------------------------------
(* Properties of the key-set cache, checked under SpecCache.               *)

InFlight(p) == pc[p] \in {"discovery", "jwks"}

(* C1: calls of get_oidc_jwks that run concurrently and all miss the cache *)
(* issue one upstream fetch between them: no two calls in progress have    *)
(* both issued upstream requests.                                          *)
C1_SingleFlight ==
    \A p, q \in Procs :
        (p # q /\ InFlight(p) /\ InFlight(q)) => (reqs[p] = 0 \/ reqs[q] = 0)

(* C2: a call made when the cached record is more than one hour old,       *)
(* however much more, does not return that record: it issues a new fetch.  *)
C2_NoStaleRecordServed ==
    [][ \A p \in Procs :
          ( /\ pc[p] = "idle" /\ pc'[p] # "idle"
            /\ jwks_cache_time # NoTime
            /\ now - jwks_cache_time > CacheTTL )
          => ( /\ pc'[p] = "discovery"
               /\ reqs'[p] = 1 ) ]_vars

(* C3: a call made while the cache holds a key set fetched less than one   *)
(* hour ago ends at once with that key set and issues no request.          *)
C3_FreshRecordServed ==
    [][ \A p \in Procs :
          ( /\ pc[p] = "idle" /\ pc'[p] # "idle"
            /\ ~jwks_cache.empty
            /\ jwks_cache_time # NoTime
            /\ now - jwks_cache_time < CacheTTL )
          => ( /\ pc'[p] = "done"
               /\ reqs'[p] = 0
               /\ res'[p].hit
               /\ res'[p].jwks = jwks_cache
               /\ jwks_cache' = jwks_cache
               /\ jwks_cache_time' = jwks_cache_time ) ]_vars

C3_Witness ==
    \E p \in Procs :
        /\ pc[p] = "done" /\ entry[p] = "jwks"
        /\ res[p].hit
        /\ now > jwks_cache_time /\ now - jwks_cache_time < CacheTTL
        /\ res[p].jwks = jwks_cache /\ ~res[p].jwks.empty
        /\ reqs[p] = 0

-----------------------------------------------------------------------------
(* Properties of get_current_user and validate_oidc_token, checked under   *)
(* Spec.                                                                   *)

Ended(p, e) == pc[p] = "done" /\ entry[p] = e

(* Local verification as the spec words it: signature under the server's   *)
(* secret, not expired, a subject, and the subject an existing Principal.  *)
LocalGood(tok, us, t) ==
    /\ tok.form = "jwt" /\ tok.alg = "HS256"
    /\ tok.key = SecretKey /\ ~tok.tampered
    /\ tok.claims.exp >= t
    /\ tok.claims.sub # Absent
    /\ \E u \in us : u.id = tok.claims.sub

(* The policy rules of spec 4.3 on validated claims. *)
PolicyPass(cfg, cl) ==
    /\ cl.email # Absent /\ cl.email # ""
    /\ cfg.require_email_verified => cl.email_verified = "true"
    /\ cfg.require_mfa => HasMfa(cl)

(* C4: with an issuer configured, a request whose OIDC validation returned *)
(* no claims (invalid token, or key set unavailable) gets exactly the      *)
(* outcome of local verification of its token: same status, same user.     *)
C4_FallbackToLocal ==
    \A p \in Procs :
        ( Ended(p, "user") /\ settings.oidc_issuer # ""
          /\ res[p].oidc.tag = "None" )
        => LET l == local_verify(token[p], users, res[p].at)
           IN  /\ res[p].status = l.status
               /\ res[p].user = l.user
               /\ res[p].prov = 0
               /\ LocalGood(token[p], users, res[p].at)
                    <=> (res[p].status = 200 /\ res[p].user = token[p].claims.sub)
               /\ res[p].status \in {200, 401}

C4_Witness ==
    \E p \in Procs :
        /\ Ended(p, "user") /\ settings.oidc_issuer # ""
        /\ reqs[p] >= 1
        /\ res[p].oidc = ValidateResult("None", "no_jwks")
        /\ res[p].status = 200 /\ res[p].user = "u1"

(* C5: with an issuer configured, a request whose OIDC validation returned *)
(* claims never reaches local verification; its response is the            *)
(* provisioner's: a policy or missing-email rejection ends it with 400 or  *)
(* 403 and no user, and a 200 carries the Principal of the claims' email.  *)
C5_ClaimsAreTerminal ==
    \A p \in Procs :
        ( Ended(p, "user") /\ settings.oidc_issuer # ""
          /\ res[p].oidc.tag = "claims" )
        => LET cl == token[p].claims
               pass == PolicyPass(settings, cl)
           IN  /\ res[p].local = NotRun
               /\ res[p].prov # 0
               /\ res[p].status = res[p].prov
               /\ ~pass => (res[p].status \in {400, 403} /\ res[p].user = Absent)
               /\ pass => res[p].status \in {200, 500}
               /\ res[p].status = 200 =>
                     \E u \in users : u.id = res[p].user /\ u.email = cl.email
               /\ res[p].status # 200 => res[p].user = Absent

C5_Witness ==
    \E p \in Procs :
        /\ Ended(p, "user") /\ res[p].oidc.tag = "claims"
        /\ res[p].status = 200 /\ res[p].local = NotRun
        /\ \E u \in users : u.id = res[p].user /\ u.email = "a@x.com"
        /\ ~LocalGood(token[p], users, res[p].at)

(* C6: validate_oidc_token always ends with claims or with its non-success *)
(* result, whatever the bearer string and the key set: no exception        *)
(* leaves it.                                                              *)
C6_NoExceptionEscapes ==
    \A p \in Procs :
        (Ended(p, "validate") \/ Ended(p, "user")) => res[p].oidc.tag # "raise"

(* C7: claims are returned only for a token whose kid names a key of the   *)
(* key set in use, that this key signed and nobody altered, whose issuer   *)
(* is the configured one, that is unexpired, and whose audience is the     *)
(* client id when one is configured; without a client id a token sound in  *)
(* all the rest is accepted whatever its audience.                         *)
C7_ClaimsOnlyIfAllChecksPass ==
    \A p \in Procs :
        (Ended(p, "validate") \/ Ended(p, "user")) =>
        LET tok == token[p]
            ks  == res[p].jwks.keys
            sound == /\ tok.form = "jwt" /\ tok.alg = "RS256"
                     /\ tok.kid # Absent
                     /\ \E i \in 1..Len(ks) :
                           /\ ks[i].kid = tok.kid /\ ks[i].n = tok.key
                           /\ \A j \in 1..Len(ks) : ks[j].kid = tok.kid => j = i
                     /\ ~tok.tampered
                     /\ tok.claims.iss = Issuer
                     /\ tok.claims.exp >= res[p].at
        IN  /\ res[p].oidc.tag = "claims" =>
                 /\ settings.oidc_issuer = Issuer
                 /\ tok.form = "jwt" /\ tok.alg = "RS256"
                 /\ \E i \in 1..Len(ks) : ks[i].kid = tok.kid /\ ks[i].n = tok.key
                 /\ ~tok.tampered
                 /\ tok.claims.iss = settings.oidc_issuer
                 /\ tok.claims.exp >= res[p].at
                 /\ settings.oidc_client_id # "" =>
                        tok.claims.aud = settings.oidc_client_id
            /\ ( settings.oidc_issuer = Issuer /\ settings.oidc_client_id = ""
                 /\ sound ) => res[p].oidc.tag = "claims"

C7_Witness ==
    \E p \in Procs :
        /\ Ended(p, "validate") /\ res[p].oidc.tag = "claims"
        /\ settings.oidc_client_id = ""
        /\ token[p].claims.aud = "other-app"
        /\ token[p].kid = "k1" /\ token[p].key = "m2" /\ res[p].jwks = JW_B

(* C8: to its caller the validator's answer for an invalid token (a        *)
(* malformed one, or one whose kid is not in the key set) differs from its *)
(* answer when validation is not applicable (key set unavailable).         *)
C8_InvalidDistinctFromNotApplicable ==
    \A p \in Procs :
        ( (Ended(p, "validate") \/ Ended(p, "user"))
          /\ res[p].oidc.why \in {"malformed", "no_key"} )
        => res[p].oidc.tag # validate_with_jwks(settings, token[p], EmptyDict, now).tag

(* C9: get_current_user answers 401 and no Principal when no token is      *)
(* presented, and, OIDC having returned no claims, whenever the token is   *)
(* not a sound local token of an existing Principal.                       *)
C9_RejectsUnauthenticated ==
    \A p \in Procs :
        Ended(p, "user") =>
        /\ token[p].form = "none" =>
              /\ res[p].status = 401 /\ res[p].user = Absent
              /\ res[p].oidc.tag = "unset" /\ res[p].local = NotRun
        /\ ( token[p].form # "none"
             /\ res[p].oidc.tag \in {"unset", "None"}
             /\ ~LocalGood(token[p], users, res[p].at) )
           => (res[p].status = 401 /\ res[p].user = Absent)

C9_Witness ==
    \E p \in Procs :
        /\ Ended(p, "user")
        /\ token[p].key = SecretKey /\ token[p].claims.sub = "u9"
        /\ token[p].claims.exp >= res[p].at
        /\ res[p].local.why = "no_user"
        /\ res[p].status = 401 /\ res[p].user = Absent

(* C10: a token minted by create_access_token for an existing Principal    *)
(* and presented after its expiry is never authenticated, and is answered  *)
(* 401 unless the OIDC validator raised before local verification.         *)
C10_ExpiredLocalTokenRejected ==
    \A p \in Procs :
        ( Ended(p, "user")
          /\ token[p] \in MintedTokens
          /\ \E u \in users : u.id = token[p].claims.sub
          /\ token[p].claims.exp < res[p].at )
        => /\ res[p].status # 200 /\ res[p].user = Absent
           /\ res[p].oidc.tag # "raise" => res[p].status = 401

C10_Witness ==
    \E p \in Procs :
        /\ Ended(p, "user")
        /\ token[p] \in MintedTokens /\ token[p].claims.sub = "u1"
        /\ token[p].claims.exp < res[p].at
        /\ res[p].local.why = "expired"
        /\ res[p].status = 401

-----------------------------------------------------------------------------
(* Properties of the policy checks and the provisioner, checked under      *)
(* SpecProv unless said otherwise.                                         *)

(* The call of get_or_create_user_from_oidc by request p has ended. *)
ProvDone(p) == pc[p] = "done" /\ entry[p] = "provision"

(* The step is a whole call of get_or_create_user_from_oidc by request 1. *)
Provisioned == pc[1] = "idle" /\ pc'[1] = "done" /\ entry'[1] = "provision"

(* C11, as stated: when verified email is required and the claims carry    *)
(* email_verified false or no email_verified, the call is rejected with    *)
(* 403, never 401, and returns no Principal.                               *)
C11_UnverifiedAlwaysForbidden ==
    ( ProvDone(1)
      /\ settings.require_email_verified
      /\ token[1].claims.email_verified \in {"false", Absent} )
    => res[1].status = 403 /\ res[1].user = Absent

(* C11, amended: when verified email is required and claims that carry an  *)
(* email carry email_verified false or no email_verified, the call is      *)
(* rejected with 403, never 401, returns no Principal and writes nothing.  *)
C11_UnverifiedEmailForbidden ==
    [][ ( Provisioned
          /\ settings.require_email_verified
          /\ token'[1].claims.email \notin {Absent, ""}
          /\ token'[1].claims.email_verified \in {"false", Absent} )
        => /\ res'[1].status = 403 /\ res'[1].user = Absent
           /\ users' = users /\ session'[1].commits = 0 ]_vars

C11_Witness ==
    /\ ProvDone(1)
    /\ settings.require_email_verified
    /\ token[1].claims.email = "a@x.com"
    /\ token[1].claims.email_verified = Absent
    /\ res[1].status = 403 /\ res[1].user = Absent

(* The MFA signal of the claims: an amr entry among mfa, otp, totp,        *)
(* webauthn, hwk, or an acr that contains "mfa" in any letter case.        *)
MfaSignal(cl) ==
    \/ \E i \in DOMAIN cl.amr : cl.amr[i] \in {"mfa", "otp", "totp", "webauthn", "hwk"}
    \/ cl.acr \in {"mfa", "urn:MFA:otp"}

(* The outcome of the step is the outcome of the same call on claims      *)
(* without amr and acr.                                                    *)
AmrAcrIgnored ==
    LET r == get_or_create_user_from_oidc(
                 settings, [token'[1].claims EXCEPT !.amr = <<>>, !.acr = Absent],
                 users)
    IN  /\ r.status = res'[1].status /\ r.user = res'[1].user
        /\ r.users = users'

(* C12, as stated: when MFA is required the claims are accepted if and     *)
(* only if they carry the MFA signal, and are otherwise rejected with 403; *)
(* when MFA is not required amr and acr have no effect.                    *)
C12_AcceptedIffMfa ==
    [][ Provisioned
        => /\ settings.require_mfa
              => /\ res'[1].status = 200 <=> MfaSignal(token'[1].claims)
                 /\ ~MfaSignal(token'[1].claims) => res'[1].status = 403
           /\ ~settings.require_mfa => AmrAcrIgnored ]_vars

(* C12, amended: when MFA is required, claims that carry an email and      *)
(* satisfy the verified-email rule are rejected with 403 if and only if    *)
(* they lack the MFA signal; when MFA is not required amr and acr have no  *)
(* effect on the outcome.                                                  *)
C12_MfaRule ==
    [][ Provisioned
        => /\ ( /\ settings.require_mfa
                /\ token'[1].claims.email \notin {Absent, ""}
                /\ settings.require_email_verified
                      => token'[1].claims.email_verified = "true" )
              => /\ res'[1].status = 403 <=> ~MfaSignal(token'[1].claims)
                 /\ res'[1].status = 403 => res'[1].user = Absent /\ users' = users
           /\ ~settings.require_mfa => AmrAcrIgnored ]_vars

C12_Witness ==
    /\ ProvDone(1)
    /\ settings.require_mfa
    /\ token[1].claims.amr = <<"pwd">> /\ token[1].claims.acr = "urn:MFA:otp"
    /\ res[1].status = 200

(* C13: claims with no email, absent or empty, are rejected under every    *)
(* configuration and whatever else they carry: no Principal is returned    *)
(* and nothing is written.                                                 *)
C13_NoEmailRejected ==
    [][ ( Provisioned /\ token'[1].claims.email \in {Absent, ""} )
        => /\ res'[1].status \notin {0, 200} /\ res'[1].user = Absent
           /\ users' = users /\ session'[1].commits = 0 ]_vars

C13_Witness ==
    /\ ProvDone(1)
    /\ ~settings.require_email_verified /\ ~settings.require_mfa
    /\ token[1].claims.email = ""
    /\ token[1].claims.email_verified = "true"
    /\ res[1].status = 400 /\ res[1].user = Absent

(* C14 (under Spec): a request whose validated claims lack an email is     *)
(* answered as Unauthenticated (401), like a bad credential.               *)
C14_NoEmailIsUnauthenticated ==
    \A p \in Procs :
        ( Ended(p, "user")
          /\ res[p].oidc.tag = "claims"
          /\ token[p].claims.email \in {Absent, ""} )
        => res[p].status = 401

(* C15 (under SpecProvOverlap): after any calls, overlapping ones for the  *)
(* same email included, there is at most one Principal per email, and      *)
(* every call that succeeded returned the Principal of its email.          *)
C15_OnePrincipalPerEmail ==
    /\ \A u, v \in users : u.email = v.email => u = v
    /\ \A p \in ProvWorkers :
          ( ProvDone(p) /\ res[p].status = 200 )
          => \E u \in users : /\ u.email = token[p].claims.email
                              /\ u.id = res[p].user

(* Two calls for one new email both found no row; one inserted it, the     *)
(* other's insert was refused.                                             *)
C15_Witness ==
    /\ ProvDone(1) /\ ProvDone(2)
    /\ token[1].claims.email = "a@x.com" /\ token[2].claims.email = "a@x.com"
    /\ token[1].claims.sub # token[2].claims.sub
    /\ session[1].user = NoRow /\ session[2].user = NoRow
    /\ res[1].status = 200 /\ session[1].commits = 1
    /\ res[2].status = 500

(* The row of users with primary key id. *)
RowOf(us, id) == CHOOSE u \in us : u.id = id

(* C16: a successful call followed by a call with the same claims: the     *)
(* second writes nothing, leaves the table as it is and returns the same   *)
(* Principal.  A call on an existing Principal commits at most once, and   *)
(* only when display name, subject identifier or verification flag change. *)
C16_Idempotent ==
    [][ Provisioned
        => /\ res'[1].status = 200
              => LET again == get_or_create_user_from_oidc(
                                  settings, token'[1].claims, users')
                 IN  /\ again.status = 200 /\ again.user = res'[1].user
                     /\ again.writes = 0 /\ again.users = users'
           /\ \A u \in users :
                 u.email = token'[1].claims.email
                 => /\ session'[1].commits <= 1
                    /\ Cardinality(users') = Cardinality(users)
                    /\ session'[1].commits = 1
                          <=> LET v == RowOf(users', u.id)
                              IN  \/ v.full_name # u.full_name
                                  \/ v.sso_subject_id # u.sso_subject_id
                                  \/ v.is_verified # u.is_verified ]_vars

(* A call on a Principal an earlier call created with the same identity.   *)
C16_Witness ==
    /\ ProvDone(1)
    /\ res[1].status = 200 /\ session[1].commits = 0
    /\ \E u \in users :
          /\ u.id = res[1].user /\ u.email = "a@x.com"
          /\ u.full_name = "Countess" /\ token[1].claims.name = "Countess"
          /\ u.sso_subject_id = token[1].claims.sub
          /\ u.is_verified = (token[1].claims.email_verified = "true")

(* C17: a subject identifier that is set is never changed by a call; a     *)
(* login with another sub resolves to the same Principal; the identifier   *)
(* is written only where it was unset.                                     *)
C17_SubjectIdImmutable ==
    [][ /\ \A u \in users :
              u.sso_subject_id # Absent
              => \E v \in users' : v.id = u.id /\ v.sso_subject_id = u.sso_subject_id
        /\ \A u \in users, v \in users' :
              ( v.id = u.id /\ v.sso_subject_id # u.sso_subject_id )
              => /\ u.sso_subject_id = Absent
                 /\ Provisioned /\ v.sso_subject_id = token'[1].claims.sub
        /\ Provisioned
           => \A u \in users :
                 ( /\ u.email = token'[1].claims.email
                   /\ u.sso_subject_id # Absent
                   /\ res'[1].status = 200 )
                 => res'[1].user = u.id ]_vars

C17_Witness ==
    /\ ProvDone(1)
    /\ res[1].status = 200
    /\ \E u \in users :
          /\ u.id = res[1].user
          /\ u.sso_subject_id = "xyz" /\ token[1].claims.sub = "abc"

(* The display name the spec derives from claims: given and family name    *)
(* joined and trimmed when either is present, otherwise name, otherwise    *)
(* the local part of the email.                                            *)
DerivedName(cl) ==
    CASE cl.given_name # Absent /\ cl.family_name # Absent
             -> cl.given_name \o " " \o cl.family_name
      [] cl.given_name # Absent /\ cl.family_name = Absent -> cl.given_name
      [] cl.given_name = Absent /\ cl.family_name # Absent -> cl.family_name
      [] OTHER -> IF cl.name # Absent THEN cl.name
                  ELSE IF cl.email = "a@x.com" THEN "a" ELSE "b"

(* C18: when no Principal has the claims' email and policy passes, the     *)
(* call creates exactly one Principal: active, with no usable password,    *)
(* the claims' email_verified and sub, and the derived display name.       *)
C18_CreatesOnePrincipal ==
    [][ ( /\ Provisioned
          /\ PolicyStatus(settings, token'[1].claims) = 0
          /\ \A u \in users : u.email # token'[1].claims.email )
        => /\ res'[1].status = 200
           /\ \E n \in users' :
                 /\ users' = users \cup {n} /\ n \notin users
                 /\ n.id = res'[1].user
                 /\ n.email = token'[1].claims.email
                 /\ n.is_active /\ n.hashed_password = ""
                 /\ n.is_verified = (token'[1].claims.email_verified = "true")
                 /\ n.sso_subject_id = token'[1].claims.sub
                 /\ n.full_name = DerivedName(token'[1].claims) ]_vars

(* C19: after every successful call the stored verification flag of the    *)
(* returned Principal is the email_verified of that call's claims.         *)
C19_FlagFollowsLatestClaim ==
    ( ProvDone(1) /\ res[1].status = 200 )
    => \E u \in users :
          /\ u.id = res[1].user
          /\ u.is_verified = (token[1].claims.email_verified = "true")

(* The flag of a Principal that was verified is lowered by a login whose   *)
(* claims carry no email_verified.                                         *)
C19_Witness ==
    /\ ProvDone(1)
    /\ res[1].status = 200 /\ session[1].commits = 1
    /\ token[1].claims.email_verified = Absent
    /\ \E u \in users :
          /\ u.id = res[1].user /\ ~u.is_active /\ u.full_name = "b"
          /\ ~u.is_verified

(* C20: a call for the email of an existing Principal leaves its id,       *)
(* email, password hash and active flag, and every other row, as they      *)
(* were.                                                                   *)
C20_OtherFieldsKept ==
    [][ Provisioned
        => \A u \in users :
              IF u.email = token'[1].claims.email
              THEN \E v \in users' :
                      /\ v.id = u.id /\ v.email = u.email
                      /\ v.hashed_password = u.hashed_password
                      /\ v.is_active = u.is_active
                      /\ users' = (users \ {u}) \cup {v}
              ELSE u \in users' ]_vars

C20_Witness ==
    /\ ProvDone(1)
    /\ res[1].status = 200 /\ session[1].commits = 1
    /\ \E u \in users :
          /\ u.id = res[1].user /\ u.id = "u1" /\ u.email = "b@x.com"
          /\ u.hashed_password = "bcrypt:bea" /\ ~u.is_active
          /\ u.full_name = "Ada Lovelace" /\ u.is_verified

-----------------------------------------------------------------------------
(* Further properties of the key-set cache and the validator.              *)

(* C22 (under SpecCache): a call of get_oidc_jwks that ends after a        *)
(* request without having stored a key set returns the empty result {},    *)
(* raises nothing and leaves the cache as it was; a call that ends at the  *)
(* discovery request never stores.                                         *)
C22_FailedRefreshReturnsEmpty ==
    [][ \A p \in Procs :
          ( entry[p] = "jwks" /\ InFlight(p) /\ pc'[p] = "done" )
          => /\ res'[p].status = 0
             /\ \/ /\ res'[p].jwks = EmptyDict
                   /\ jwks_cache' = jwks_cache
                   /\ jwks_cache_time' = jwks_cache_time
                \/ /\ pc[p] = "jwks"
                   /\ res'[p].jwks = jwks_cache'
                   /\ jwks_cache_time' = now ]_vars

(* A refresh of an expired record failed at the key-set request: the call  *)
(* returned {} and the old record is still cached.                         *)
C22_Witness ==
    \E p \in Procs :
        /\ Ended(p, "jwks") /\ reqs[p] = 2
        /\ res[p].jwks = EmptyDict /\ res[p].status = 0
        /\ ~jwks_cache.empty /\ jwks_cache_time # NoTime
        /\ now - jwks_cache_time > CacheTTL

(* C23 (under SpecNoIssuer): with no issuer configured no call issues a    *)
(* request, get_oidc_jwks returns {} and validate_oidc_token returns None  *)
(* as not applicable; the cache stays empty.                               *)
C23_NoIssuerShortCircuits ==
    settings.oidc_issuer = ""
    => /\ jwks_cache = EmptyDict /\ jwks_cache_time = NoTime
       /\ \A p \in Procs :
             /\ reqs[p] = 0 /\ ~InFlight(p)
             /\ Ended(p, "jwks") => res[p].jwks = EmptyDict /\ ~res[p].hit
             /\ Ended(p, "validate")
                   => res[p].oidc = ValidateResult("None", "no_issuer")

C23_Witness ==
    /\ settings.oidc_issuer = ""
    /\ Ended(1, "validate") /\ Ended(2, "jwks")
    /\ token[1].alg = "RS256" /\ token[1].kid = "k1" /\ ~token[1].tampered
    /\ res[1].oidc = ValidateResult("None", "no_issuer")
    /\ res[2].jwks = EmptyDict
    /\ now > 0

(* C24 (under SpecCache): the cached key set and its timestamp change      *)
(* only together, in the step in which a key-set request is answered, to   *)
(* the key set that call returns and the time of that step.                *)
C24_CacheWrittenWhole ==
    [][ ( jwks_cache' # jwks_cache \/ jwks_cache_time' # jwks_cache_time )
        => \E p \in Procs :
              /\ pc[p] = "jwks" /\ pc'[p] = "done"
              /\ jwks_cache' = res'[p].jwks
              /\ jwks_cache_time' = now ]_vars

(* A refresh replaced an older record while another call was waiting for   *)
(* its own key-set request.                                                *)
C24_Witness ==
    \E p, q \in Procs :
        /\ Ended(p, "jwks") /\ ~res[p].hit
        /\ res[p].jwks = JW_B /\ jwks_cache = JW_B
        /\ jwks_cache_time = now /\ now > 0
        /\ q # p /\ pc[q] = "jwks"

(* C25 (under SpecCache): a call issues its requests in order, discovery   *)
(* once and then the key-set request once, the latter only from an         *)
(* answered discovery request and to the jwks_uri of that answer; a call   *)
(* that has issued a request never goes back to an earlier one.            *)
C25_NoRetry ==
    [][ \A p \in Procs :
          /\ reqs'[p] # reqs[p]
                => \/ /\ reqs[p] = 0 /\ reqs'[p] = 1
                      /\ pc[p] = "idle" /\ pc'[p] = "discovery"
                   \/ /\ reqs[p] = 1 /\ reqs'[p] = 2
                      /\ pc[p] = "discovery" /\ pc'[p] = "jwks"
                      /\ jwks_uri'[p] \in DiscoveryResponses \ {"error", "no_jwks_uri"}
                   \/ /\ pc[p] = "done" /\ pc'[p] = "idle" /\ reqs'[p] = 0
          /\ ( InFlight(p) /\ pc'[p] # pc[p] )
                => \/ pc'[p] = "done"
                   \/ pc[p] = "discovery" /\ pc'[p] = "jwks" /\ reqs'[p] = 2
          /\ pc'[p] = "discovery" /\ pc[p] # "discovery" => reqs'[p] = 1 ]_vars

(* The discovery request failed: the call ended with one request issued.   *)
C25_Witness ==
    \E p \in Procs :
        /\ Ended(p, "jwks") /\ reqs[p] = 1
        /\ ~res[p].hit /\ res[p].jwks = EmptyDict
        /\ jwks_uri[p] = Absent

(* C26 (under Spec): a structurally malformed bearer string is handled     *)
(* without consulting the key-set cache: its request issues no upstream    *)
(* request.                                                                *)
C26_MalformedNeverFetches ==
    \A p \in Procs :
        ( entry[p] \in {"validate", "user"} /\ token[p].form = "malformed" )
        => reqs[p] = 0 /\ ~InFlight(p)

(* C27 (under SpecCache): a key-set request answered after a request that  *)
(* was issued later than it has already stored its answer does not         *)
(* overwrite the cache.                                                    *)
C27_LaterFetchWins ==
    [][ \A p \in Procs :
          ( pc[p] = "jwks" /\ pc'[p] = "done" /\ p \in fetches.overtaken )
          => /\ jwks_cache' = jwks_cache
             /\ jwks_cache_time' = jwks_cache_time ]_vars

(* C28 (under SpecProv): a call rejected for a missing email, an           *)
(* unverified email or missing MFA leaves the users table as it was.       *)
C28_RejectionWritesNothing ==
    [][ ( Provisioned /\ res'[1].status \in {400, 403} )
        => users' = users /\ session'[1].commits = 0 ]_vars

(* A verified Principal whose login was rejected for an unverified email   *)
(* under another display name keeps its flag and its name.                 *)
C28_Witness ==
    /\ ProvDone(1) /\ res[1].status = 403
    /\ settings.require_email_verified
    /\ token[1].claims.email = "b@x.com"
    /\ token[1].claims.email_verified = "false"
    /\ token[1].claims.given_name = "Ada"
    /\ \E u \in users :
          u.email = "b@x.com" /\ u.is_verified /\ u.full_name = "Bea"

-----------------------------------------------------------------------------
(* Properties of the router endpoints.                                     *)

(* C29 (under SpecTasks): after any create_task, delete_task and move_task *)
(* calls with new_order inside the target column's range, no two tasks of  *)
(* one project in one state have the same sort_order.                      *)
C29_SortOrderUnique ==
    \A t1, t2 \in tasks :
        ( t1.project_id = t2.project_id /\ t1.state_id = t2.state_id
          /\ t1.sort_order = t2.sort_order )
        => t1 = t2

(* C30 (under SpecStates): after any initialize_project_states,            *)
(* create_state, update_state and delete_state calls each project has at   *)
(* most one state with is_default true.                                    *)
C30_OneDefaultPerProject ==
    \A st1, st2 \in states :
        ( st1.project_id = st2.project_id /\ st1.is_default /\ st2.is_default )
        => st1 = st2

(* The default of an initialised project was moved to a state created      *)
(* later.                                                                  *)
C30_Witness ==
    \E st1, st2 \in states :
        /\ st1.project_id = st2.project_id
        /\ st1.name = "Backlog" /\ ~st1.is_default
        /\ st2.name = "QA" /\ st2.is_default
        /\ \E st3 \in states : /\ st3.project_id = st1.project_id
                                /\ st3.name = "Cancelled"

(* C21 (under SpecStates): a request whose resolved Principal is inactive  *)
(* changes no persisted record.                                            *)
C21_InactiveNeverMutates ==
    [][ ( \E u \in users : u.id = api'.user /\ ~u.is_active )
        => UNCHANGED <<projects, tasks, states, cycles>> ]_vars

=============================================================================
